---- MODULE Spec2Model ----
(***************************************************************************)
(* Model of the SwarProf backend (Backend/): the FastAPI package under     *)
(* Backend/src (routes -> controllers -> models, MongoDB collections       *)
(* "users" and "artists") and the standalone Backend/main.py application.  *)
(*                                                                         *)
(* Python strings that the code inspects character by character (file      *)
(* names, extracted text) are sequences of one-character strings.  A JSON  *)
(* value / Optional[str] is a record [t, v]: t is "null", "str", "absent"  *)
(* (key missing from a dict) or "bad" (a value of a type the schema        *)
(* rejects); v is the character sequence of a "str".                       *)
(***************************************************************************)
EXTENDS Integers, Sequences, FiniteSets, TLC

VARIABLES
    users,          \* the users collection: user id -> document
    artists,        \* the artists collection: artist id -> document
    files,          \* the upload folder: saved path -> id of the request whose bytes it holds
    clock,          \* datetime.utcnow(), in seconds
    ocr_model,      \* ArtistController.ocr_model
    gemini_model,   \* ArtistController.gemini_model
    genai_ok,       \* the google.generativeai SDK imported and GEMINI_API_KEY is set
    req,            \* requests of the package application (Backend/src), per request id
    mreq,           \* requests of the standalone application (Backend/main.py)
    fname,          \* argument of the pure function under check
    fres            \* its result

vars == <<users, artists, files, clock, ocr_model, gemini_model, genai_ok,
          req, mreq, fname, fres>>

(***************************************************************************)
(* Bounds of the model.                                                    *)
(***************************************************************************)
MaxLen == 3        \* longest generated file name (after an optional timestamp prefix)
MaxReq == 2        \* requests served by each application in one run
MaxClock == 1      \* seconds the clock may advance

(***************************************************************************)
(* Characters and Python's str methods.                                    *)
(***************************************************************************)
Digits == {"0", "1", "2", "3", "4", "5", "6", "7", "8", "9"}
LowerLetters == <<"a", "b", "c", "d", "e", "f", "g", "h", "i", "j", "k", "l", "m",
                  "n", "o", "p", "q", "r", "s", "t", "u", "v", "w", "x", "y", "z">>
UpperLetters == <<"A", "B", "C", "D", "E", "F", "G", "H", "I", "J", "K", "L", "M",
                  "N", "O", "P", "Q", "R", "S", "T", "U", "V", "W", "X", "Y", "Z">>
LowerCase == {LowerLetters[i] : i \in 1..Len(LowerLetters)}
UpperCase == {UpperLetters[i] : i \in 1..Len(UpperLetters)}
Whitespace == {" ", "\n", "\t"}

\* c.upper() and c.lower() of one character
Upper(c) ==
    IF c \in LowerCase
    THEN UpperLetters[CHOOSE i \in 1..Len(LowerLetters) : LowerLetters[i] = c]
    ELSE c

Lower(c) ==
    IF c \in UpperCase
    THEN LowerLetters[CHOOSE i \in 1..Len(UpperLetters) : UpperLetters[i] = c]
    ELSE c

IsCased(c) == c \in LowerCase \cup UpperCase
IsAlnum(c) == c \in LowerCase \cup UpperCase \cup Digits

\* s.lower()
LowerStr(s) == [i \in 1..Len(s) |-> Lower(s[i])]

\* s.replace(a, b) for single characters a, b
ReplaceChar(s, a, b) == [i \in 1..Len(s) |-> IF s[i] = a THEN b ELSE s[i]]

\* s.rfind(c), 1-based; 0 when c does not occur
RFind(s, c) ==
    IF \E i \in 1..Len(s) : s[i] = c
    THEN CHOOSE i \in 1..Len(s) : s[i] = c /\ \A j \in (i+1)..Len(s) : s[j] # c
    ELSE 0

\* s.strip(): leading and trailing whitespace removed
RECURSIVE LStrip(_)
LStrip(s) == IF s # <<>> /\ Head(s) \in Whitespace THEN LStrip(Tail(s)) ELSE s

RECURSIVE RStrip(_)
RStrip(s) ==
    IF s # <<>> /\ s[Len(s)] \in Whitespace THEN RStrip(SubSeq(s, 1, Len(s) - 1)) ELSE s

Strip(s) == RStrip(LStrip(s))

\* s.title(): the first cased character after an uncased one is upper-cased,
\* every other cased character is lower-cased
Title(s) ==
    [i \in 1..Len(s) |->
        IF ~IsCased(s[i]) THEN s[i]
        ELSE IF i > 1 /\ IsCased(s[i-1]) THEN Lower(s[i]) ELSE Upper(s[i])]

\* ' '.join(s.split()): whitespace runs collapsed to one space, none at the ends
RECURSIVE JoinSplit(_)
JoinSplit(s) ==
    IF s = <<>> THEN <<>>
    ELSE IF Head(s) \in Whitespace THEN JoinSplit(Tail(s))
    ELSE IF Len(s) > 1 /\ s[2] \in Whitespace
         THEN IF LStrip(Tail(s)) = <<>> THEN <<Head(s)>>
              ELSE <<Head(s), " ">> \o JoinSplit(Tail(s))
    ELSE <<Head(s)>> \o JoinSplit(Tail(s))

\* the characters of s that are not whitespace
NonBlank(s) == SelectSeq(s, LAMBDA c : c \notin Whitespace)

(***************************************************************************)
(* pathlib: Path(filename).stem                                            *)
(***************************************************************************)
\* the last component of s.split('/') that is neither empty nor '.'
RECURSIVE PathName(_)
PathName(s) ==
    LET cut == RFind(s, "/")
        last == SubSeq(s, cut + 1, Len(s))
    IN  IF last # <<>> /\ last # <<".">> THEN last
        ELSE IF cut = 0 THEN <<>>
        ELSE PathName(SubSeq(s, 1, cut - 1))

\* PurePath.stem: the name without its last suffix; a leading or a trailing
\* dot starts no suffix
PathStem(s) ==
    LET name == PathName(s)
        i == RFind(name, ".")
    IN  IF 1 < i /\ i < Len(name) THEN SubSeq(name, 1, i - 1) ELSE name

(***************************************************************************)
(* ArtistController.extract_artist_name_from_filename                      *)
(***************************************************************************)
TimestampLen == 16

\* re.match(r'^\d{8}_\d{6}_', name)
HasTimestampPrefix(name) ==
    /\ Len(name) >= TimestampLen
    /\ \A i \in 1..8 : name[i] \in Digits
    /\ name[9] = "_"
    /\ \A i \in 10..15 : name[i] \in Digits
    /\ name[16] = "_"

\* re.sub(r'^\d{8}_\d{6}_', '', name)
RemoveTimestamp(name) ==
    IF HasTimestampPrefix(name) THEN SubSeq(name, TimestampLen + 1, Len(name)) ELSE name

UnknownArtist == <<"U", "n", "k", "n", "o", "w", "n", " ", "A", "r", "t", "i", "s", "t">>

\* the name before the final validity test (lines 86-102)
CleanedName(filename) ==
    JoinSplit(Title(ReplaceChar(ReplaceChar(RemoveTimestamp(PathStem(filename)),
                                            "_", " "), "-", " ")))

\* a validity test that only refuses the empty name
NameEmpty(name) == name = <<>>

\* the validity test of line 106
NameTooShort(name) == name = <<>> \/ Len(Strip(name)) < 2

extract_artist_name_from_filename(filename) ==
    LET name == CleanedName(filename)
    IN  IF NameTooShort(name) THEN UnknownArtist ELSE name

(***************************************************************************)
(* utils/file_utils.py                                                     *)
(***************************************************************************)
ALLOWED_EXTENSIONS ==
    { <<"p", "d", "f">>, <<"d", "o", "c", "x">>, <<"j", "p", "g">>, <<"j", "p", "e", "g">>,
      <<"p", "n", "g">>, <<"b", "m", "p">>, <<"t", "i", "f", "f">> }

MAX_FILE_SIZE == 16777216

\* get_file_extension: filename.rsplit('.', 1)[1].lower(); None (here <<>>, which
\* is_allowed_file treats alike) when the name has no dot
get_file_extension(filename) ==
    LET i == RFind(filename, ".")
    IN  IF i = 0 THEN <<>> ELSE LowerStr(SubSeq(filename, i + 1, Len(filename)))

\* a check that lets every file name pass
allow_any_file(filename) == TRUE

is_allowed_file(filename) ==
    LET ext == get_file_extension(filename)
    IN  ext # <<>> /\ ext \in ALLOWED_EXTENSIONS

\* re.sub(r'[\s_\-]+', '_', s)
RECURSIVE CollapseSeparators(_)
CollapseSeparators(s) ==
    LET sep == Whitespace \cup {"_", "-"}
    IN  IF s = <<>> THEN <<>>
        ELSE IF Head(s) \in sep
             THEN IF Len(s) > 1 /\ s[2] \in sep THEN CollapseSeparators(Tail(s))
                  ELSE <<"_">> \o CollapseSeparators(Tail(s))
        ELSE <<Head(s)>> \o CollapseSeparators(Tail(s))

\* s.strip('_')
RECURSIVE StripUnderscores(_)
StripUnderscores(s) ==
    IF s # <<>> /\ Head(s) = "_" THEN StripUnderscores(Tail(s))
    ELSE IF s # <<>> /\ s[Len(s)] = "_" THEN StripUnderscores(SubSeq(s, 1, Len(s) - 1))
    ELSE s

secure_filename(filename) ==
    LET kept == SelectSeq(filename,
                    LAMBDA c : IsAlnum(c) \/ c \in Whitespace \cup {".", "_", "-"})
        name == StripUnderscores(CollapseSeparators(Strip(kept)))
    IN  IF name = <<>> THEN <<"unnamed_file">> ELSE name

\* create_unique_filename: f"{timestamp}_{secure_name}" under UPLOAD_FOLDER; the
\* timestamp has a fixed width, so the pair determines the string and conversely
\* the file names clients upload: a document, an image, a type that is not
\* allowed, a name without extension
UploadNames ==
    { <<"r", "a", "v", "i", "-", "k", ".", "P", "D", "F">>,
      <<"a", ".", "p", "n", "g">>,
      <<"n", "o", "t", "e", "s", ".", "t", "x", "t">>,
      <<"n", "o", "e", "x", "t">> }

\* secure_filename, evaluated once for each name
SecuredName == [f \in UploadNames |-> secure_filename(f)]

\* create_unique_filename: the time to the second, then the secured name
create_unique_filename(original_filename, now) ==
    [ts |-> now, name |-> SecuredName[original_filename]]

\* save_uploaded_file: open(file_path, "wb") creates or truncates the file
save_uploaded_file(folder, owner, filename, now) ==
    LET file_path == create_unique_filename(filename, now)
    IN  [p \in DOMAIN folder \cup {file_path} |->
            IF p = file_path THEN owner ELSE folder[p]]

\* cleanup_temp_file: os.remove when the path exists
cleanup_temp_file(folder, file_path) ==
    [p \in DOMAIN folder \ {file_path} |-> folder[p]]

(***************************************************************************)
(* JSON values and schemas/artist_schemas.py                               *)
(***************************************************************************)
Null == [t |-> "null", v |-> <<>>]
Absent == [t |-> "absent", v |-> <<>>]
Bad == [t |-> "bad", v |-> <<>>]
Str(s) == [t |-> "str", v |-> s]

\* dict.get(key): None for a missing key
Get(d, key) == IF d[key].t = "absent" THEN Null ELSE d[key]

\* Python truth of a value: None and '' are false ("bad" stands for a non-empty
\* list or object)
Truthy(x) == x.t = "bad" \/ (x.t = "str" /\ x.v # <<>>)

\* the Optional[str] fields of ArtistInfo that the model carries
ArtistInfoFields ==
    {"artist_name", "guru_name", "summary", "extraction_confidence", "additional_notes"}

\* ArtistInfo(**raw) raises ValidationError when a field has a value that is
\* neither null nor a string
SchemaValid(raw) == \A f \in ArtistInfoFields : raw[f].t # "bad"

\* ArtistInfo(**raw).dict(): every field, None where it was missing
ArtistInfo(raw) == [f \in ArtistInfoFields |-> IF raw[f].t = "str" THEN raw[f] ELSE Null]

EmptyRaw == [f \in ArtistInfoFields |-> Absent]

(***************************************************************************)
(* ArtistController.create_fallback_data and its pattern matching          *)
(***************************************************************************)
\* s.split(sep) for a one-character separator: the parts, empty ones included
RECURSIVE Split(_, _)
Split(s, sep) ==
    IF \A i \in 1..Len(s) : s[i] # sep THEN <<s>>
    ELSE LET i == CHOOSE k \in 1..Len(s) : s[k] = sep /\ \A j \in 1..(k-1) : s[j] # sep
         IN  <<SubSeq(s, 1, i - 1)>> \o Split(SubSeq(s, i + 1, Len(s)), sep)

\* s.split(): the maximal runs of non-whitespace
RECURSIVE SplitWords(_)
SplitWords(s) ==
    LET t == LStrip(s)
    IN  IF t = <<>> THEN <<>>
        ELSE IF \A i \in 1..Len(t) : t[i] \notin Whitespace THEN <<t>>
        ELSE LET i == CHOOSE k \in 1..Len(t) :
                        t[k] \in Whitespace /\ \A j \in 1..(k-1) : t[j] \notin Whitespace
             IN  <<SubSeq(t, 1, i - 1)>> \o SplitWords(SubSeq(t, i, Len(t)))

\* sep.join(parts)
RECURSIVE Join(_, _)
Join(parts, sep) ==
    IF parts = <<>> THEN <<>>
    ELSE IF Len(parts) = 1 THEN parts[1]
    ELSE parts[1] \o sep \o Join(Tail(parts), sep)

\* sub in s
Contains(s, sub) ==
    \E i \in 1..(Len(s) - Len(sub) + 1) : SubSeq(s, i, i + Len(sub) - 1) = sub

\* s.strip(chars)
RECURSIVE StripChars(_, _)
StripChars(s, chars) ==
    IF s # <<>> /\ Head(s) \in chars THEN StripChars(Tail(s), chars)
    ELSE IF s # <<>> /\ s[Len(s)] \in chars THEN StripChars(SubSeq(s, 1, Len(s) - 1), chars)
    ELSE s

guru_keywords ==
    << <<"g", "u", "r", "u">>,
       <<"t", "e", "a", "c", "h", "e", "r">>,
       <<"u", "s", "t", "a", "d">>,
       <<"p", "a", "n", "d", "i", "t">>,
       <<"u", "n", "d", "e", "r">>,
       <<"t", "r", "a", "i", "n", "e", "d", " ", "w", "i", "t", "h">>,
       <<"s", "t", "u", "d", "e", "n", "t", " ", "o", "f">> >>

\* the (keyword, word) positions of a line at which _extract_guru_name finds a
\* name: the keyword occurs in the line and in the word, and two words follow
GuruMatches(line) ==
    LET words == SplitWords(line)
    IN  { <<k, i>> \in (1..Len(guru_keywords)) \X (1..Len(words)) :
            /\ Contains(LowerStr(line), guru_keywords[k])
            /\ Contains(LowerStr(words[i]), guru_keywords[k])
            /\ i <= Len(words) - 2 }

\* _extract_guru_name: the two words after the first match, in the order of the
\* loops (line, keyword, word), without surrounding '.' and ','
_extract_guru_name(lines) ==
    IF \A n \in 1..Len(lines) : GuruMatches(lines[n]) = {} THEN Null
    ELSE LET n == CHOOSE m \in 1..Len(lines) :
                    GuruMatches(lines[m]) # {} /\ \A j \in 1..(m-1) : GuruMatches(lines[j]) = {}
             found == GuruMatches(lines[n])
             first == CHOOSE a \in found :
                        \A b \in found : a[1] < b[1] \/ (a[1] = b[1] /\ a[2] <= b[2])
             words == SplitWords(lines[n])
         IN  Str(StripChars(words[first[2] + 1] \o <<" ">> \o words[first[2] + 2], {".", ","}))

\* summary: '. '.join(sentences[:3]).strip() + '.'
FallbackSummary(document_text) ==
    LET sentences == Split(ReplaceChar(document_text, "\n", " "), ".")
        head == SubSeq(sentences, 1, IF Len(sentences) < 3 THEN Len(sentences) ELSE 3)
    IN  Strip(Join(head, <<".", " ">>)) \o <<".">>

create_fallback_data(artist_name, document_text) ==
    [ artist_name |-> Str(artist_name),
      guru_name |-> _extract_guru_name(Split(document_text, "\n")),
      summary |-> Str(FallbackSummary(document_text)),
      extraction_confidence |-> Str(<<"medium">>),
      additional_notes |-> Str(<<"Extracted using fallback method with pattern matching">>) ]

(***************************************************************************)
(* What text extraction can yield (fitz / OCR are the environment).        *)
(***************************************************************************)
\* ten characters, two of them not blank
TextSparse == <<"a", " ", " ", " ", " ", " ", " ", " ", " ", "b">>
\* a line that names a teacher
TextGuru == <<"u", "s", "t", "a", "d", " ", "a", "l", "i", " ", "k", "h", "a", "n", ".", "\n", "r", "a", "g", "a">>
\* too short once stripped
TextShort == <<" ", " ", "r", "a", "g", "a", " ", "\n">>
TextBlank == <<" ", " ", " ", " ", " ", " ", " ", " ", " ", " ">>
TextEmpty == <<>>

ExtractedTexts == {TextSparse, TextGuru, TextShort, TextBlank, TextEmpty}

\* the functions of a text, evaluated once for each text the libraries can yield
YieldedTexts == ExtractedTexts \cup {Strip(t) : t \in ExtractedTexts}
\* a text taken as it is, with its leading and trailing whitespace
UnstrippedText == [t \in YieldedTexts |-> t]

StrippedText == [t \in YieldedTexts |-> Strip(t)]
FallbackOf == [t \in YieldedTexts |-> create_fallback_data(<<>>, t)]

(***************************************************************************)
(* The Gemini service (environment) and the parsing of its reply.          *)
(***************************************************************************)
LlmName == <<"R", "a", "v", "i">>
LlmGuru == <<"K", "h", "a", "n">>

\* JSON objects the model may answer with
GeminiObjects ==
    [ artist_name : {Absent, Null, Str(<<>>), Str(LlmName)},
      guru_name : {Null, Str(LlmGuru), Bad},
      summary : {Null, Str(<<"Sitar player.">>)},
      extraction_confidence : {Str(<<"high">>)},
      additional_notes : {Absent} ]

\* a reply: generate_content / response.text raises, or the text is a payload
\* (not JSON at all, a JSON scalar or list without braces, a JSON list of
\* objects, a JSON object) put bare, inside a ```json fence, or inside prose
GeminiReplies ==
    {[call |-> "raises", wrapper |-> "bare", payload |-> "garbage", data |-> EmptyRaw]}
    \cup [call : {"responds"}, wrapper : {"bare", "fenced", "prose"},
          payload : {"garbage", "scalar", "list_of_objects"}, data : {EmptyRaw}]
    \cup [call : {"responds"}, wrapper : {"bare", "fenced", "prose"},
          payload : {"object"}, data : GeminiObjects]

\* json.loads(json_str) after the fence / brace slicing of lines 278-292:
\* "error" (JSONDecodeError), "non_object" or "object"
ParseReply(reply) ==
    IF reply.payload = "garbage" THEN "error"
    ELSE IF reply.wrapper = "fenced"
         \* the regex finds the fenced text
         THEN IF reply.payload = "object" THEN "object" ELSE "non_object"
    ELSE IF reply.payload = "object"
         \* content[find('{') : rfind('}') + 1] is the object
         THEN "object"
    ELSE IF reply.payload = "list_of_objects"
         \* the slice from the first '{' to the last '}' drops the brackets
         THEN "error"
    ELSE IF reply.wrapper = "bare" THEN "non_object" ELSE "error"

\* the parsed object with the name the LLM gave it
KeepArtistName(data, artist_name) == data

\* line 295: data["artist_name"] = artist_name
SetArtistName(data, artist_name) == [data EXCEPT !.artist_name = Str(artist_name)]

\* the same call without its try/except: an exception of the SDK or of the
\* parsing reaches the caller
extract_with_gemini_unguarded(model, sdk_ok, artist_name, document_text, env) ==
    LET fallback == [FallbackOf[document_text] EXCEPT !.artist_name = Str(artist_name)]
        ready == model \/ (sdk_ok /\ env.construct_ok)
        parsed == ParseReply(env.reply)
        data == [env.reply.data EXCEPT !.artist_name = Str(artist_name)]
        raises == \/ (~model /\ sdk_ok /\ ~env.construct_ok)
                  \/ (ready /\ (env.reply.call = "raises" \/ parsed # "object"
                                 \/ data.summary.t = "null"))
    IN  [ raised |-> raises,
          data |-> IF ready THEN data ELSE fallback,
          fell_back |-> ~ready,
          model |-> ready ]

\* ArtistController.extract_with_gemini: whether it raises, the dict returned,
\* whether that is the fallback data, and gemini_model afterwards.
\* env.construct_ok: whether genai.GenerativeModel(...) succeeds, env.reply: the
\* service's reply.
extract_with_gemini(model, sdk_ok, artist_name, document_text, env) ==
    LET fallback == [data |-> [FallbackOf[document_text] EXCEPT
                                    !.artist_name = Str(artist_name)],
                     fell_back |-> TRUE]
        ready == model \/ (sdk_ok /\ env.construct_ok)
        parsed == ParseReply(env.reply)
        data == SetArtistName(env.reply.data, artist_name)
        answer ==
            IF ~ready THEN fallback
            ELSE IF env.reply.call = "raises" THEN fallback
            ELSE IF parsed = "error" THEN fallback
            \* data["artist_name"] = ... on a list, string or number: TypeError
            ELSE IF parsed = "non_object" THEN fallback
            \* len(data.get('summary', '')) with "summary": null: TypeError
            ELSE IF data.summary.t = "null" THEN fallback
            ELSE [data |-> data, fell_back |-> FALSE]
    \* every exception is caught (lines 304-310)
    IN  [ raised |-> FALSE, data |-> answer.data, fell_back |-> answer.fell_back,
          model |-> ready ]

(***************************************************************************)
(* ArtistController.extract_artist_info (POST /api/extract)                *)
(***************************************************************************)
MinTextLen == 10

UploadSizes == {0, MAX_FILE_SIZE, MAX_FILE_SIZE + 1}

\* the functions of an upload's file name, evaluated once for each name
Uploaded ==
    [f \in UploadNames |->
        [ allowed |-> is_allowed_file(f),
          artist_name |-> extract_artist_name_from_filename(f) ]]

NoPath == [ts |-> 0, name |-> <<>>]
NoInfo == ArtistInfo(EmptyRaw)
NoResp == [success |-> FALSE]
IdleReq == [kind |-> "none", pc |-> "idle", status |-> 0]

\* the locals of one extract_artist_info call
NewExtract(filename, user) ==
    [ kind |-> "extract", pc |-> "idle", status |-> 0, detail |-> "",
      filename |-> filename, user |-> user, name |-> <<>>, path |-> NoPath,
      text |-> <<>>, fell_back |-> FALSE, info |-> NoInfo, artist_id |-> 0,
      too_large |-> FALSE, log |-> <<>>, resp |-> NoResp ]

\* raise HTTPException(status_code, detail): the call ends
Raise(q, status, detail) == [q EXCEPT !.pc = "done", !.status = status, !.detail = detail]

\* ArtistController.initialize: a failure to load the OCR model is swallowed and
\* leaves both models as they were
initialize(ocr, gemini, sdk_ok, env) ==
    IF ~env.ocr_ok THEN [ocr_model |-> ocr, gemini_model |-> gemini]
    ELSE [ocr_model |-> TRUE, gemini_model |-> sdk_ok /\ env.construct_ok]

InitEnvs == [ocr_ok : BOOLEAN, construct_ok : BOOLEAN]

\* Path(file_path).suffix.lower() of a saved file, without its dot
PathSuffix(name) ==
    LET i == RFind(name, ".")
    IN  IF i = 0 \/ i = Len(name) THEN <<>>
        ELSE LowerStr(SubSeq(name, i + 1, Len(name)))

SuffixOf == [n \in {SecuredName[f] : f \in UploadNames} |-> PathSuffix(n)]

SavedSuffix(path) == SuffixOf[path.name]

ImageSuffixes ==
    {<<"j", "p", "e", "g">>, <<"j", "p", "g">>, <<"p", "n", "g">>, <<"b", "m", "p">>,
     <<"t", "i", "f", "f">>}

DocumentSuffixes == {<<"p", "d", "f">>, <<"d", "o", "c", "x">>}

\* ArtistController.extract_text: env.raises: the library (fitz, doctr) raises;
\* env.text: the text it finds.  An image needs the OCR model.
extract_text(path, ocr, gemini, sdk_ok, env) ==
    LET suffix == SavedSuffix(path)
        loaded == IF suffix \in ImageSuffixes /\ ~ocr
                  THEN initialize(ocr, gemini, sdk_ok, env.init)
                  ELSE [ocr_model |-> ocr, gemini_model |-> gemini]
        raises == \/ env.raises
                  \/ suffix \notin ImageSuffixes \cup DocumentSuffixes
                  \/ (suffix \in ImageSuffixes /\ ~loaded.ocr_model)
    IN  [ raises |-> raises,
          text |-> IF suffix \in ImageSuffixes THEN StrippedText[env.text] ELSE env.text,
          ocr_model |-> loaded.ocr_model, gemini_model |-> loaded.gemini_model ]

\* steps 4 and 5: the artist name is set when missing, then ArtistInfo(**raw),
\* or on a validation error the minimal object
ValidatedInfo(raw, filename_artist_name) ==
    LET named == IF ~Truthy(Get(raw, "artist_name"))
                 THEN [raw EXCEPT !.artist_name = Str(filename_artist_name)]
                 ELSE raw
    IN  IF SchemaValid(named) THEN ArtistInfo(named)
        ELSE ArtistInfo([EmptyRaw EXCEPT
                !.artist_name = Str(filename_artist_name),
                !.summary = Str(<<"Artist information for ">> \o filename_artist_name)])

\* step 6: artist_doc["artist_info"] after the final safety check
StoredInfo(info, filename_artist_name) ==
    IF ~Truthy(info.artist_name)
    THEN [info EXCEPT !.artist_name = Str(filename_artist_name)]
    ELSE info

\* an insert that trusts the validated object and skips the final safety check
\* of lines 581-583, the object's name being whatever the model answered
create_artist_unchecked(q, now) ==
    [ artist_info |-> [q.info EXCEPT !.artist_name = Null],
      original_filename |-> q.filename,
      saved_filename |-> q.path,
      extracted_text |-> q.text,
      extraction_status |-> "completed",
      created_by |-> q.user,
      created_at |-> now,
      updated_at |-> now,
      enhancement_status |-> "absent",
      enhanced_at |-> 0 ]

\* ArtistModel.create_artist: the document as inserted
create_artist(q, now) ==
    [ artist_info |-> StoredInfo(q.info, q.name),
      original_filename |-> q.filename,
      saved_filename |-> q.path,
      extracted_text |-> q.text,
      extraction_status |-> "completed",
      created_by |-> q.user,
      created_at |-> now,
      updated_at |-> now,
      enhancement_status |-> "absent",
      enhanced_at |-> 0 ]

\* the ObjectId MongoDB gives the next inserted document
NewId(collection) == Cardinality(DOMAIN collection) + 1

\* requests are numbered in the order they arrive
NextToArrive(rs, r) == rs[r].pc = "idle" /\ \A q \in 1..(r-1) : rs[q].pc # "idle"

\* lines 507-527: validation, initialize, the name from the file name
ExtractReceive(r) ==
    /\ NextToArrive(req, r)
    /\ \E filename \in UploadNames, user \in DOMAIN users, size \in UploadSizes :
        LET q == [NewExtract(filename, user) EXCEPT !.log = <<"validate">>,
                                                     !.too_large = size > MAX_FILE_SIZE]
        IN  IF ~Uploaded[filename].allowed
            THEN /\ req' = [req EXCEPT ![r] = Raise(q, 400, "File type not allowed")]
                 /\ UNCHANGED <<ocr_model, gemini_model>>
            ELSE IF size # 0 /\ size > MAX_FILE_SIZE
                 THEN /\ req' = [req EXCEPT ![r] = Raise(q, 400, "File too large")]
                      /\ UNCHANGED <<ocr_model, gemini_model>>
                 ELSE \E env \in (IF ocr_model THEN {[ocr_ok |-> TRUE, construct_ok |-> TRUE]}
                                  ELSE InitEnvs) :
                      LET loaded ==
                            IF ocr_model
                            THEN [ocr_model |-> ocr_model, gemini_model |-> gemini_model]
                            ELSE initialize(ocr_model, gemini_model, genai_ok, env)
                      IN  /\ req' = [req EXCEPT ![r] =
                                [q EXCEPT !.pc = "read",
                                          !.name = Uploaded[filename].artist_name]]
                          /\ ocr_model' = loaded.ocr_model
                          /\ gemini_model' = loaded.gemini_model
    /\ UNCHANGED <<users, artists, files, clock, genai_ok, mreq, fname, fres>>

\* what the environment decides during one ExtractProcess: only the choices the
\* code comes to depend on are drawn
NeedsOcrLoad(path, ocr) == SavedSuffix(path) \in ImageSuffixes /\ ~ocr

TextEnvsFor(path, ocr) ==
    [raises : BOOLEAN, text : ExtractedTexts,
     init : IF NeedsOcrLoad(path, ocr) THEN InitEnvs
            ELSE {[ocr_ok |-> TRUE, construct_ok |-> TRUE]}]

GeminiEnvsFor(model, sdk_ok) ==
    IF model THEN [construct_ok : {TRUE}, reply : GeminiReplies]
    ELSE IF sdk_ok
         THEN [construct_ok : {TRUE}, reply : GeminiReplies]
              \cup [construct_ok : {FALSE}, reply : {CHOOSE x \in GeminiReplies : x.call = "raises"}]
    ELSE [construct_ok : {FALSE}, reply : {CHOOSE x \in GeminiReplies : x.call = "raises"}]

\* a test that lets every text pass
TextNeverTooShort(extracted_text) == FALSE

\* line 538: not extracted_text or len(extracted_text.strip()) < 10
TextTooShort(extracted_text) ==
    extracted_text = <<>> \/ Len(StrippedText[extracted_text]) < MinTextLen

\* lines 529-583, run without suspension once file.read() has returned: the file
\* is saved, its text extracted and tested, Gemini asked, the result validated.
\* log names the steps completed so far.
ExtractProcess(r) ==
    /\ req[r].kind = "extract" /\ req[r].pc = "read"
    /\ LET q == req[r]
           file_path == create_unique_filename(q.filename, clock)
           saved == [q EXCEPT !.path = file_path, !.log = @ \o <<"save">>]
       IN  /\ files' = save_uploaded_file(files, r, q.filename, clock)
           /\ \E tenv \in TextEnvsFor(file_path, ocr_model) :
                LET ex == extract_text(file_path, ocr_model, gemini_model, genai_ok, tenv)
                    read == [saved EXCEPT !.text = ex.text, !.log = @ \o <<"text">>]
                IN  /\ ocr_model' = ex.ocr_model
                    /\ IF ex.raises
                       THEN /\ req' = [req EXCEPT ![r] =
                                        Raise(saved, 500, "Error processing file")]
                            /\ gemini_model' = ex.gemini_model
                       ELSE IF TextTooShort(ex.text)
                       THEN /\ req' = [req EXCEPT ![r] = Raise(read, 400,
                                        "Could not extract meaningful text from the document")]
                            /\ gemini_model' = ex.gemini_model
                       ELSE \E ai \in {extract_with_gemini(ex.gemini_model, genai_ok,
                                                           q.name, ex.text, genv) :
                                        genv \in GeminiEnvsFor(ex.gemini_model, genai_ok)} :
                            /\ gemini_model' = ai.model
                            /\ IF ai.raised
                               THEN req' = [req EXCEPT ![r] =
                                        Raise(read, 500, "Error processing file")]
                               ELSE req' = [req EXCEPT ![r] =
                                        [read EXCEPT !.pc = "insert",
                                                     !.fell_back = ai.fell_back,
                                                     !.info = ValidatedInfo(ai.data, q.name),
                                                     !.log = @ \o <<"llm", "schema">>]]
    /\ UNCHANGED <<users, artists, clock, genai_ok, mreq, fname, fres>>

\* line 585: insert_one takes effect in the database, or fails (line 608: 500)
ExtractInsert(r) ==
    /\ req[r].kind = "extract" /\ req[r].pc = "insert"
    /\ \E db_ok \in BOOLEAN :
        IF db_ok
        THEN /\ artists' = artists @@ (NewId(artists) :> create_artist(req[r], clock))
             /\ req' = [req EXCEPT ![r].pc = "respond",
                                   ![r].artist_id = NewId(artists),
                                   ![r].log = @ \o <<"insert">>]
        ELSE /\ req' = [req EXCEPT ![r] = Raise(@, 500, "Error processing file")]
             /\ UNCHANGED artists
    /\ UNCHANGED <<users, files, clock, ocr_model, gemini_model, genai_ok, mreq, fname, fres>>

\* a response that does not wait for the insert
ExtractRespondEarly(r) ==
    /\ req[r].kind = "extract" /\ req[r].pc = "insert"
    /\ files' = cleanup_temp_file(files, req[r].path)
    /\ req' = [req EXCEPT ![r].pc = "done",
                          ![r].status = 200,
                          ![r].log = @ \o <<"respond">>,
                          ![r].resp =
                             [ success |-> TRUE,
                               artist_id |-> req[r].artist_id,
                               filename |-> req[r].filename,
                               guaranteed_artist_name |-> req[r].name,
                               extracted_text_length |-> Len(req[r].text),
                               artist_info |-> req[r].info ]]
    /\ UNCHANGED <<users, artists, clock, ocr_model, gemini_model, genai_ok, mreq, fname, fres>>

\* lines 588-604: the saved file is removed and the result returned
ExtractRespond(r) ==
    /\ req[r].kind = "extract" /\ req[r].pc = "respond"
    /\ files' = cleanup_temp_file(files, req[r].path)
    /\ req' = [req EXCEPT ![r].pc = "done",
                          ![r].status = 200,
                          ![r].log = @ \o <<"respond">>,
                          ![r].resp =
                             [ success |-> TRUE,
                               artist_id |-> req[r].artist_id,
                               filename |-> req[r].filename,
                               guaranteed_artist_name |-> req[r].name,
                               extracted_text_length |-> Len(req[r].text),
                               artist_info |-> req[r].info ]]
    /\ UNCHANGED <<users, artists, clock, ocr_model, gemini_model, genai_ok, mreq, fname, fres>>

(***************************************************************************)
(* ArtistController.enhance_artist_contact_details                         *)
(* (POST /api/artists/{artist_id}/enhance)                                 *)
(***************************************************************************)
\* artist_id 0 stands for a string that is not an ObjectId
MalformedId == 0

\* the locals of one enhance_artist_contact_details call
NewEnhance(artist_id) ==
    [ kind |-> "enhance", pc |-> "idle", status |-> 0, detail |-> "",
      artist_id |-> artist_id, existing |-> NoInfo, name |-> Null, info |-> NoInfo,
      parsed |-> "none" ]

\* a test that finds the service available whatever the state
GeminiAlwaysAvailable(model, sdk_ok) == FALSE

\* lines 861-868: no model, and no SDK or no API key to make one
GeminiUnavailable(model, sdk_ok) == ~model /\ ~sdk_ok

\* lines 860-901, from the availability test to the validated result: status 0
\* when the call goes on to the update; parsed: what json.loads made of the
\* answer, "none" when there was no answer
EnhanceOutcome(model, sdk_ok, existing, env) ==
    LET ready == model \/ (sdk_ok /\ env.construct_ok)
        parsed == ParseReply(env.reply)
        failed(status, detail, answer) ==
            [status |-> status, detail |-> detail, info |-> existing, model |-> ready,
             parsed |-> answer]
    IN  IF GeminiUnavailable(model, sdk_ok)
        THEN failed(503, "AI enhancement service not available", "none")
        \* genai.GenerativeModel(...) raises
        ELSE IF ~ready THEN failed(500, "Error enhancing artist data", "none")
        ELSE IF env.reply.call = "raises"
        THEN failed(500, "Error enhancing artist data", "none")
        ELSE IF parsed = "error" THEN failed(500, "Failed to parse AI response", parsed)
        \* ArtistInfo(**enhanced_data) on a list or a scalar raises inside the try
        ELSE IF parsed = "non_object" \/ ~SchemaValid(env.reply.data)
             THEN [status |-> 0, detail |-> "", info |-> ArtistInfo(existing), model |-> ready,
                   parsed |-> parsed]
        ELSE [status |-> 0, detail |-> "", info |-> ArtistInfo(env.reply.data),
              model |-> ready, parsed |-> parsed]

\* what the Gemini service can do during one EnhanceProcess
EnhanceEnvsFor(model, sdk_ok) ==
    IF model THEN [construct_ok : {TRUE}, reply : GeminiReplies]
    ELSE [construct_ok : BOOLEAN, reply : GeminiReplies]

\* line 845: find_one reads the collection
EnhanceFind(r) ==
    /\ NextToArrive(req, r)
    /\ \E artist_id \in {MalformedId} \cup DOMAIN artists \cup {NewId(artists)} :
        LET q == NewEnhance(artist_id)
        IN  IF artist_id = MalformedId
            THEN req' = [req EXCEPT ![r] = Raise(q, 500, "Error enhancing artist data")]
            ELSE IF artist_id \notin DOMAIN artists
            THEN req' = [req EXCEPT ![r] = Raise(q, 404, "Artist not found")]
            ELSE req' = [req EXCEPT ![r] =
                    [q EXCEPT !.pc = "found",
                              !.existing = artists[artist_id].artist_info,
                              !.name = artists[artist_id].artist_info.artist_name]]
    /\ UNCHANGED <<users, artists, files, clock, ocr_model, gemini_model, genai_ok, mreq,
                   fname, fres>>

\* lines 852-908, run without suspension once find_one has returned
EnhanceProcess(r) ==
    /\ req[r].kind = "enhance" /\ req[r].pc = "found"
    /\ \E out \in {EnhanceOutcome(gemini_model, genai_ok, req[r].existing, env) :
                    env \in EnhanceEnvsFor(gemini_model, genai_ok)} :
        /\ gemini_model' = out.model
        /\ IF out.status # 0
           THEN req' = [req EXCEPT ![r] =
                    Raise([@ EXCEPT !.parsed = out.parsed], out.status, out.detail)]
           ELSE req' = [req EXCEPT ![r].pc = "update", ![r].info = out.info,
                                   ![r].parsed = out.parsed]
    /\ UNCHANGED <<users, artists, files, clock, ocr_model, genai_ok, mreq, fname, fres>>

\* ArtistModel.update_artist: $set of the given fields and of updated_at
update_artist(collection, artist_id, update_data, now) ==
    [collection EXCEPT ![artist_id] =
        [@ EXCEPT !.artist_info = update_data.artist_info,
                  !.enhancement_status = update_data.enhancement_status,
                  !.enhanced_at = update_data.enhanced_at,
                  !.updated_at = now]]

\* lines 910-928: update_one takes effect, or fails (line 940: 500)
EnhanceUpdate(r) ==
    /\ req[r].kind = "enhance" /\ req[r].pc = "update"
    /\ \E db_ok \in BOOLEAN :
        IF db_ok
        THEN /\ artists' = update_artist(artists, req[r].artist_id,
                                [artist_info |-> req[r].info,
                                 enhancement_status |-> "enhanced",
                                 enhanced_at |-> clock], clock)
             /\ req' = [req EXCEPT ![r].pc = "done", ![r].status = 200]
        ELSE /\ req' = [req EXCEPT ![r] = Raise(@, 500, "Error enhancing artist data")]
             /\ UNCHANGED artists
    /\ UNCHANGED <<users, files, clock, ocr_model, gemini_model, genai_ok, mreq, fname, fres>>

\* time passes
Tick ==
    /\ clock < MaxClock
    /\ clock' = clock + 1
    /\ UNCHANGED <<users, artists, files, ocr_model, gemini_model, genai_ok, req, mreq,
                   fname, fres>>

(***************************************************************************)
(* File names given to the pure functions: every string of at most MaxLen  *)
(* characters over NameAlphabet, bare or after a timestamp prefix such as  *)
(* create_unique_filename writes.                                          *)
(***************************************************************************)
NameAlphabet == {"a", "B", "1", "_", "-", ".", " ", "/"}

SampleTimestamp ==
    <<"2", "0", "2", "4", "0", "1", "3", "1", "_", "2", "3", "5", "9", "5", "9", "_">>

\* one digit short of a timestamp: the pattern must not match
NearTimestamp ==
    <<"2", "0", "2", "4", "0", "1", "3", "_", "2", "3", "5", "9", "5", "9", "_">>

RECURSIVE StringsUpTo(_, _)
StringsUpTo(alphabet, n) ==
    IF n = 0 THEN {<<>>}
    ELSE LET shorter == StringsUpTo(alphabet, n - 1)
         IN  shorter \cup {Append(s, c) : s \in shorter, c \in alphabet}

NameInputs ==
    {p \o s : p \in {<<>>, SampleTimestamp, NearTimestamp},
              s \in StringsUpTo(NameAlphabet, MaxLen)}

NoResult == [done |-> FALSE, v |-> <<>>]

\* the state of everything but the function harness
NoRequests == [r \in 1..MaxReq |-> [kind |-> "none", pc |-> "idle", status |-> 0]]

InitSystem ==
    /\ users = <<>>
    /\ artists = <<>>
    /\ files = <<>>
    /\ clock = 0
    /\ ocr_model = FALSE
    /\ gemini_model = FALSE
    /\ genai_ok = FALSE
    /\ req = NoRequests
    /\ mreq = NoRequests

sysvars == <<users, artists, files, clock, ocr_model, gemini_model, genai_ok, req, mreq>>

InitName ==
    /\ InitSystem
    /\ fname \in NameInputs
    /\ fres = NoResult

\* one call of extract_artist_name_from_filename(fname)
ApplyName ==
    /\ ~fres.done
    /\ fres' = [done |-> TRUE, v |-> extract_artist_name_from_filename(fname)]
    /\ UNCHANGED <<fname, sysvars>>

NextName == ApplyName

SpecName == InitName /\ [][NextName]_vars

(***************************************************************************)
(* The package application: users exist, nothing has been extracted yet.   *)
(***************************************************************************)
UserDoc(username, email, now) ==
    [ username |-> username, email |-> email, full_name |-> <<"Test User">>,
      password |-> <<"hash">>, role |-> "user", created_at |-> now, updated_at |-> now ]

RegisteredUsers ==
    (1 :> UserDoc(<<"a", "m", "y">>, <<"a", "m", "y", "@", "x", ".", "i", "n">>, 0)) @@ (2 :> UserDoc(<<"b", "o", "b">>, <<"b", "o", "b", "@", "x", ".", "i", "n">>, 0))

Init ==
    /\ users = RegisteredUsers
    /\ artists = <<>>
    /\ files = <<>>
    /\ clock = 0
    /\ ocr_model = FALSE
    /\ gemini_model = FALSE
    /\ genai_ok \in BOOLEAN
    /\ req = [r \in 1..MaxReq |-> IdleReq]
    /\ mreq = [r \in 1..MaxReq |-> IdleReq]
    /\ fname = <<>>
    /\ fres = NoResult

Next ==
    \/ \E r \in 1..MaxReq : ExtractReceive(r)
    \/ \E r \in 1..MaxReq : ExtractProcess(r)
    \/ \E r \in 1..MaxReq : ExtractInsert(r)
    \/ \E r \in 1..MaxReq : ExtractRespond(r)
    \/ \E r \in 1..MaxReq : EnhanceFind(r)
    \/ \E r \in 1..MaxReq : EnhanceProcess(r)
    \/ \E r \in 1..MaxReq : EnhanceUpdate(r)
    \/ Tick

Spec == Init /\ [][Next]_vars

(***************************************************************************)
(* Registration: UserController.register_user behind POST /auth/register   *)
(* of the package application (requests req), and register_user of the     *)
(* standalone main.py (requests mreq).                                     *)
(***************************************************************************)
Usernames == { <<"a", "m", "y">>, <<"A", "m", "y">>, <<"c", "a", "t">> }
Emails ==
    { <<"a", "m", "y", "@", "x", ".", "i", "n">>,
      <<"C", "a", "t", "@", "x", ".", "i", "n">> }

\* request bodies that pass the field constraints of UserCreate
RegisterPayloads == [username : Usernames, email : Emails]

\* schemas/user_schemas.py UserCreate: the validators lower-case both fields
UserCreate(payload) ==
    [username |-> LowerStr(payload.username), email |-> LowerStr(payload.email)]

\* main.py UserCreate: no validator, the fields are kept as sent
MainUserCreate(payload) == [username |-> payload.username, email |-> payload.email]

\* UserModel.find_by_username_or_email: the documents find_one can return
find_by_username_or_email(collection, identifier) ==
    {id \in DOMAIN collection :
        collection[id].username = identifier \/ collection[id].email = identifier}

\* a lookup that finds nobody
find_nobody(collection, email) == {}

\* UserModel.find_by_email
find_by_email(collection, email) ==
    {id \in DOMAIN collection : collection[id].email = email}

\* main.py lines 457-462: one find_one with $or over username and email
MainFindExisting(collection, username, email) ==
    {id \in DOMAIN collection :
        collection[id].username = username \/ collection[id].email = email}

\* the unique indexes on users.username and users.email refuse the document
DuplicateKey(collection, username, email) ==
    \E id \in DOMAIN collection :
        collection[id].username = username \/ collection[id].email = email

\* UserResponse(...).dict() of a stored user
UserResponse(collection, id) ==
    [ id |-> id, username |-> collection[id].username, email |-> collection[id].email,
      full_name |-> collection[id].full_name, role |-> collection[id].role,
      created_at |-> collection[id].created_at, updated_at |-> collection[id].updated_at ]

\* utils/response_utils.py create_success_response
create_success_response(message, data) ==
    [success |-> TRUE, message |-> message, data |-> data]

\* TokenResponse: access_token and user are required, token_type has a default
TokenResponseRequired == {"access_token", "user"}

\* the route's response_model accepts the returned dict
TokenResponseValid(body) == TokenResponseRequired \subseteq DOMAIN body

\* the locals of one register_user call; in_use: whether the user name or the
\* e-mail address was taken when the request arrived
NewRegister(data, taken) ==
    [ kind |-> "register", pc |-> "idle", status |-> 0, detail |-> "",
      username |-> data.username, email |-> data.email, in_use |-> taken,
      user_id |-> 0, resp |-> NoResp ]

\* user_controller.py lines 17-23
PkgRegisterReceive(r) ==
    /\ NextToArrive(req, r)
    /\ \E payload \in RegisterPayloads :
        LET data == UserCreate(payload)
            q == NewRegister(data, DuplicateKey(users, data.username, data.email))
        IN  IF find_by_username_or_email(users, data.username) # {}
            THEN req' = [req EXCEPT ![r] =
                            Raise(q, 400, "User with this username already exists")]
            ELSE req' = [req EXCEPT ![r] = [q EXCEPT !.pc = "check_email"]]
    /\ UNCHANGED <<users, artists, files, clock, ocr_model, gemini_model, genai_ok, mreq,
                   fname, fres>>

\* lines 25-30
PkgRegisterCheckEmail(r) ==
    /\ req[r].kind = "register" /\ req[r].pc = "check_email"
    /\ IF find_by_email(users, req[r].email) # {}
       THEN req' = [req EXCEPT ![r] = Raise(@, 400, "User with this email already exists")]
       ELSE req' = [req EXCEPT ![r].pc = "create"]
    /\ UNCHANGED <<users, artists, files, clock, ocr_model, gemini_model, genai_ok, mreq,
                   fname, fres>>

\* lines 32-43: insert_one; a document the unique indexes refuse raises
\* DuplicateKeyError, which nothing catches (500); the indexes exist unless
\* create_indexes failed at startup
PkgRegisterCreate(r) ==
    /\ req[r].kind = "register" /\ req[r].pc = "create"
    /\ \E indexed \in BOOLEAN :
        IF indexed /\ DuplicateKey(users, req[r].username, req[r].email)
        THEN /\ req' = [req EXCEPT ![r] = Raise(@, 500, "Internal Server Error")]
             /\ UNCHANGED users
        ELSE /\ users' = users @@
                    (NewId(users) :> UserDoc(req[r].username, req[r].email, clock))
             /\ req' = [req EXCEPT ![r].pc = "respond", ![r].user_id = NewId(users)]
    /\ UNCHANGED <<artists, files, clock, ocr_model, gemini_model, genai_ok, mreq,
                   fname, fres>>

\* lines 45-74 and the route's response_model=TokenResponse: the dict returned
\* is validated against TokenResponse, a failure being a 500
PkgRegisterRespond(r) ==
    /\ req[r].kind = "register" /\ req[r].pc = "respond"
    /\ LET body == create_success_response("User registered successfully",
                        [ access_token |-> [user_id |-> req[r].user_id],
                          token_type |-> "bearer",
                          user |-> UserResponse(users, req[r].user_id) ])
       IN  IF TokenResponseValid(body)
           THEN req' = [req EXCEPT ![r].pc = "done", ![r].status = 200, ![r].resp = body]
           ELSE req' = [req EXCEPT ![r] = Raise(@, 500, "Internal Server Error")]
    /\ UNCHANGED <<users, artists, files, clock, ocr_model, gemini_model, genai_ok, mreq,
                   fname, fres>>

\* main.py lines 456-468
MainRegisterReceive(r) ==
    /\ NextToArrive(mreq, r)
    /\ \E payload \in RegisterPayloads :
        LET data == MainUserCreate(payload)
            q == NewRegister(data, DuplicateKey(users, data.username, data.email))
        IN  IF MainFindExisting(users, data.username, data.email) # {}
            THEN mreq' = [mreq EXCEPT ![r] =
                    Raise(q, 400, "User with this username or email already exists")]
            ELSE mreq' = [mreq EXCEPT ![r] = [q EXCEPT !.pc = "create"]]
    /\ UNCHANGED <<users, artists, files, clock, ocr_model, gemini_model, genai_ok, req,
                   fname, fres>>

\* main.py lines 470-497: insert_one, then the token and the plain dict
MainRegisterCreate(r) ==
    /\ mreq[r].kind = "register" /\ mreq[r].pc = "create"
    /\ \E indexed \in BOOLEAN :
        IF indexed /\ DuplicateKey(users, mreq[r].username, mreq[r].email)
        THEN /\ mreq' = [mreq EXCEPT ![r] = Raise(@, 500, "Internal Server Error")]
             /\ UNCHANGED users
        ELSE /\ users' = users @@
                    (NewId(users) :> UserDoc(mreq[r].username, mreq[r].email, clock))
             /\ mreq' = [mreq EXCEPT
                    ![r].pc = "done", ![r].status = 200, ![r].user_id = NewId(users),
                    ![r].resp = [ message |-> "User registered successfully",
                                  access_token |-> [user_id |-> NewId(users)],
                                  user_id |-> NewId(users) ]]
    /\ UNCHANGED <<artists, files, clock, ocr_model, gemini_model, genai_ok, req,
                   fname, fres>>

InitUser ==
    /\ users = RegisteredUsers
    /\ artists = <<>>
    /\ files = <<>>
    /\ clock = 0
    /\ ocr_model = FALSE
    /\ gemini_model = FALSE
    /\ genai_ok = FALSE
    /\ req = [r \in 1..MaxReq |-> IdleReq]
    /\ mreq = [r \in 1..MaxReq |-> IdleReq]
    /\ fname = <<>>
    /\ fres = NoResult

NextUser ==
    \/ \E r \in 1..MaxReq : PkgRegisterReceive(r)
    \/ \E r \in 1..MaxReq : PkgRegisterCheckEmail(r)
    \/ \E r \in 1..MaxReq : PkgRegisterCreate(r)
    \/ \E r \in 1..MaxReq : PkgRegisterRespond(r)
    \/ \E r \in 1..MaxReq : MainRegisterReceive(r)
    \/ \E r \in 1..MaxReq : MainRegisterCreate(r)
    \/ Tick

SpecUser == InitUser /\ [][NextUser]_vars

(***************************************************************************)
(* The standalone application main.py: get_current_user and the endpoints  *)
(* behind it (requests mreq).                                              *)
(***************************************************************************)
\* the id of a user who has been removed from the collection
RemovedUser == NewId(RegisteredUsers)

\* what a client can send as credentials: no Authorization header, a string
\* that is no JWT signed with JWT_SECRET, an expired token, a token whose
\* payload has no user_id, a token issued to a user
Tokens ==
    {[kind |-> k, user_id |-> 0] : k \in {"missing", "malformed", "expired", "no_user_id"}}
    \cup {[kind |-> "valid", user_id |-> u] : u \in DOMAIN RegisteredUsers \cup {RemovedUser}}

\* HTTPBearer() without credentials: 403 in the FastAPI releases that answer
\* "Not authenticated" with HTTP_403_FORBIDDEN, 401 in the later ones
BearerRejects == {401, 403}

\* main.py verify_token: the payload, or the status of the failure.  A token
\* jwt.decode refuses for another reason than expiry reaches
\* "except jwt.JWTError", a name PyJWT does not have: AttributeError, 500.
verify_token(token) ==
    IF token.kind = "expired" THEN [status |-> 401, user_id |-> 0]
    ELSE IF token.kind = "malformed" THEN [status |-> 500, user_id |-> 0]
    ELSE [status |-> 0, user_id |-> token.user_id]

Endpoints == {"extract", "list_artists", "get_artist", "list_results", "get_result"}

\* one request to main.py; entered: the endpoint function has started,
\* returned: the ids of the records in the response
NewMain(endpoint, token) ==
    [ kind |-> "main", pc |-> "idle", status |-> 0, detail |-> "",
      endpoint |-> endpoint, token |-> token, user |-> 0, entered |-> FALSE,
      returned |-> {} ]

\* get_current_user (lines 214-227) with the HTTPBearer dependency
MainAuth(r) ==
    /\ NextToArrive(mreq, r)
    /\ \E endpoint \in Endpoints, token \in Tokens :
        LET q == NewMain(endpoint, token)
            payload == verify_token(token)
        IN  IF token.kind = "missing"
            THEN \E st \in BearerRejects :
                    mreq' = [mreq EXCEPT ![r] = Raise(q, st, "Not authenticated")]
            ELSE IF payload.status # 0
            THEN mreq' = [mreq EXCEPT ![r] = Raise(q, payload.status, "Invalid token")]
            ELSE IF payload.user_id = 0
            THEN mreq' = [mreq EXCEPT ![r] = Raise(q, 401, "Invalid token")]
            ELSE IF payload.user_id \notin DOMAIN users
            THEN mreq' = [mreq EXCEPT ![r] = Raise(q, 401, "User not found")]
            ELSE mreq' = [mreq EXCEPT ![r] =
                            [q EXCEPT !.pc = "handler", !.user = payload.user_id]]
    /\ UNCHANGED <<users, artists, files, clock, ocr_model, gemini_model, genai_ok, req,
                   fname, fres>>

\* main.py allowed_file
allowed_file(filename) ==
    /\ \E i \in 1..Len(filename) : filename[i] = "."
    /\ LowerStr(SubSeq(filename, RFind(filename, ".") + 1, Len(filename)))
            \in ALLOWED_EXTENSIONS

\* lines 545-561: validation, then file.read()
MainExtractValidate(r) ==
    /\ mreq[r].kind = "main" /\ mreq[r].pc = "handler" /\ mreq[r].endpoint = "extract"
    /\ \E filename \in UploadNames, size \in UploadSizes :
        LET q == [mreq[r] EXCEPT !.entered = TRUE]
        IN  IF ~allowed_file(filename)
            THEN mreq' = [mreq EXCEPT ![r] = Raise(q, 400, "File type not allowed")]
            ELSE IF size > MAX_FILE_SIZE
            THEN mreq' = [mreq EXCEPT ![r] = Raise(q, 400, "File too large")]
            ELSE mreq' = [mreq EXCEPT ![r] = [q EXCEPT !.pc = "read"]]
    /\ UNCHANGED <<users, artists, files, clock, ocr_model, gemini_model, genai_ok, req,
                   fname, fres>>

\* line 562: main.py neither defines nor imports save_uploaded_file: NameError,
\* turned into a 500 by lines 623-628
MainExtractSave(r) ==
    /\ mreq[r].kind = "main" /\ mreq[r].pc = "read"
    /\ mreq' = [mreq EXCEPT ![r] = Raise(@, 500, "Error processing file")]
    /\ UNCHANGED <<users, artists, files, clock, ocr_model, gemini_model, genai_ok, req,
                   fname, fres>>

\* a listing (page 1, the default limit): every record
MainList(r, endpoint) ==
    /\ mreq[r].kind = "main" /\ mreq[r].pc = "handler" /\ mreq[r].endpoint = endpoint
    /\ mreq' = [mreq EXCEPT ![r].pc = "done", ![r].status = 200, ![r].entered = TRUE,
                            ![r].returned = DOMAIN artists]
    /\ UNCHANGED <<users, artists, files, clock, ocr_model, gemini_model, genai_ok, req,
                   fname, fres>>

\* a lookup by id: the 404 raised inside the try is caught by
\* "except Exception" and becomes a 400, like the error of a malformed id
MainGet(r, endpoint) ==
    /\ mreq[r].kind = "main" /\ mreq[r].pc = "handler" /\ mreq[r].endpoint = endpoint
    /\ \E artist_id \in {MalformedId} \cup DOMAIN artists \cup {NewId(artists)} :
        LET q == [mreq[r] EXCEPT !.entered = TRUE]
        IN  IF artist_id \notin DOMAIN artists
            THEN mreq' = [mreq EXCEPT ![r] = Raise(q, 400, "Invalid artist ID")]
            ELSE mreq' = [mreq EXCEPT ![r] =
                    [q EXCEPT !.pc = "done", !.status = 200, !.returned = {artist_id}]]
    /\ UNCHANGED <<users, artists, files, clock, ocr_model, gemini_model, genai_ok, req,
                   fname, fres>>

\* lines 630-668
MainListArtists(r) == MainList(r, "list_artists")
\* lines 670-690
MainGetArtist(r) == MainGet(r, "get_artist")
\* lines 692-727
MainListResults(r) == MainList(r, "list_results")
\* lines 729-749
MainGetResult(r) == MainGet(r, "get_result")

\* records the package application stored earlier in the shared database
PriorArtists ==
    (1 :> create_artist(
            [NewExtract(<<"a", ".", "p", "n", "g">>, 1) EXCEPT
                !.name = UnknownArtist,
                !.path = create_unique_filename(<<"a", ".", "p", "n", "g">>, 0),
                !.text = TextGuru,
                !.info = ValidatedInfo(FallbackOf[TextGuru], UnknownArtist)], 0))

InitMain ==
    /\ users = RegisteredUsers
    /\ artists \in {<<>>, PriorArtists}
    /\ files = <<>>
    /\ clock = 0
    /\ ocr_model = FALSE
    /\ gemini_model = FALSE
    /\ genai_ok = FALSE
    /\ req = [r \in 1..MaxReq |-> IdleReq]
    /\ mreq = [r \in 1..MaxReq |-> IdleReq]
    /\ fname = <<>>
    /\ fres = NoResult

NextMain ==
    \/ \E r \in 1..MaxReq : MainAuth(r)
    \/ \E r \in 1..MaxReq : MainExtractValidate(r)
    \/ \E r \in 1..MaxReq : MainExtractSave(r)
    \/ \E r \in 1..MaxReq : MainListArtists(r)
    \/ \E r \in 1..MaxReq : MainGetArtist(r)
    \/ \E r \in 1..MaxReq : MainListResults(r)
    \/ \E r \in 1..MaxReq : MainGetResult(r)

SpecMain == InitMain /\ [][NextMain]_vars

(***************************************************************************)
(* main.py: from the reply of the LLM to the artist_info of the record     *)
(* (lines 364-404 and 576-591), applied to one input.                      *)
(***************************************************************************)
\* main.py extract_artist_info_with_gemini: what json.loads gave, or one of
\* the two dicts of the except clauses ({"raw_response", "parsing_error"},
\* {"error", "raw_response"}), which have none of the fields of ArtistInfo.
\* Without the SDK genai is None and genai.GenerativeModel raises.
extract_artist_info_with_gemini(sdk_ok, reply) ==
    IF ~sdk_ok \/ reply.call = "raises"
    THEN [shape |-> "object", data |-> EmptyRaw]
    ELSE LET parsed == ParseReply(reply)
         IN  IF parsed = "error" THEN [shape |-> "object", data |-> EmptyRaw]
             ELSE IF parsed = "non_object" THEN [shape |-> "non_object", data |-> EmptyRaw]
             ELSE [shape |-> "object", data |-> reply.data]

RawSummary == <<"Raw extraction data (validation failed)">>

\* lines 579-591: artist_doc["artist_info"]
MainArtistInfo(artist_info_raw) ==
    IF artist_info_raw.shape = "object" /\ SchemaValid(artist_info_raw.data)
    THEN ArtistInfo(artist_info_raw.data)
    ELSE ArtistInfo([EmptyRaw EXCEPT !.summary = Str(RawSummary)])

MainInfoInputs == [sdk_ok : BOOLEAN, reply : GeminiReplies]

InitMainInfo ==
    /\ InitSystem
    /\ fname \in MainInfoInputs
    /\ fres = NoResult

ApplyMainInfo ==
    /\ ~fres.done
    /\ fres' = [done |-> TRUE,
                v |-> MainArtistInfo(extract_artist_info_with_gemini(fname.sdk_ok, fname.reply))]
    /\ UNCHANGED <<fname, sysvars>>

NextMainInfo == ApplyMainInfo

SpecMainInfo == InitMainInfo /\ [][NextMainInfo]_vars

(***************************************************************************)
(* Python's re module, as far as the patterns of                           *)
(* _extract_contact_details_from_text use it.  A pattern is a tree of      *)
(* nodes: "cls" (one character of a set), "ncls" (one character outside a  *)
(* set), "wb" (\b), "seq", "alt", "rep" (greedy repetition, max = -1 for   *)
(* no upper limit) and "grp" (the capturing group).                        *)
(***************************************************************************)
WordChars == LowerCase \cup UpperCase \cup Digits \cup {"_"}

Cls(set) == [k |-> "cls", set |-> set]
NotCls(set) == [k |-> "ncls", set |-> set]
WordBoundary == [k |-> "wb"]
ReSeq(items) == [k |-> "seq", items |-> items]
Rep(r, min, max) == [k |-> "rep", r |-> r, min |-> min, max |-> max]
Opt(r) == Rep(r, 0, 1)
Plus(r) == Rep(r, 1, -1)
Star(r) == Rep(r, 0, -1)
Group(r) == [k |-> "grp", r |-> r]

\* a literal string; with re.IGNORECASE a letter matches in both cases
Lit(str, ignorecase) ==
    ReSeq([i \in 1..Len(str) |->
            Cls(IF ignorecase THEN {Lower(str[i]), Upper(str[i])} ELSE {str[i]})])

\* \b at position i of s (between s[i-1] and s[i])
AtWordBoundary(s, i) ==
    LET before == i > 1 /\ s[i - 1] \in WordChars
        after == i <= Len(s) /\ s[i] \in WordChars
    IN  before # after

RECURSIVE ReMatch(_, _, _, _), ReThen(_, _, _, _), ReAny(_, _, _, _)
\* the ways node re matches s from position i on, in the order the
\* backtracking matcher tries them: the position after the match and the span
\* of the capturing group
ReMatch(re, s, i, cap) ==
    CASE re.k = "cls" ->
            IF i <= Len(s) /\ s[i] \in re.set
            THEN <<[end |-> i + 1, cap |-> cap]>> ELSE <<>>
      [] re.k = "ncls" ->
            IF i <= Len(s) /\ s[i] \notin re.set
            THEN <<[end |-> i + 1, cap |-> cap]>> ELSE <<>>
      [] re.k = "wb" ->
            IF AtWordBoundary(s, i) THEN <<[end |-> i, cap |-> cap]>> ELSE <<>>
      [] re.k = "seq" ->
            IF re.items = <<>> THEN <<[end |-> i, cap |-> cap]>>
            ELSE ReThen(ReMatch(Head(re.items), s, i, cap), ReSeq(Tail(re.items)), s, i)
      [] re.k = "alt" -> ReAny(re.items, s, i, cap)
      [] re.k = "rep" ->
            LET again == Rep(re.r, IF re.min > 0 THEN re.min - 1 ELSE 0,
                                   IF re.max > 0 THEN re.max - 1 ELSE re.max)
                more == IF re.max = 0 THEN <<>>
                        ELSE ReThen(ReMatch(re.r, s, i, cap), again, s, i)
            IN  more \o (IF re.min = 0 THEN <<[end |-> i, cap |-> cap]>> ELSE <<>>)
      [] re.k = "grp" ->
            LET inner == ReMatch(re.r, s, i, cap)
            IN  [n \in 1..Len(inner) |-> [end |-> inner[n].end, cap |-> <<i, inner[n].end>>]]

\* each of the matches firsts (which began at position from), continued by re;
\* a repetition is not continued after an empty match
ReThen(firsts, re, s, from) ==
    IF firsts = <<>> THEN <<>>
    ELSE (IF re.k = "rep" /\ Head(firsts).end = from THEN <<>>
          ELSE ReMatch(re, s, Head(firsts).end, Head(firsts).cap))
         \o ReThen(Tail(firsts), re, s, from)

\* the alternatives of a | b | ..., from left to right
ReAny(items, s, i, cap) ==
    IF items = <<>> THEN <<>>
    ELSE ReMatch(Head(items), s, i, cap) \o ReAny(Tail(items), s, i, cap)

RECURSIVE ReScan(_, _, _, _)
\* re.findall from position i on: the leftmost match, then the rest of the
\* string after it; a pattern with a group yields the group
ReScan(re, grouped, s, i) ==
    IF i > Len(s) THEN <<>>
    ELSE LET found == ReMatch(re, s, i, <<0, 0>>)
         IN  IF found = <<>> THEN ReScan(re, grouped, s, i + 1)
             ELSE LET m == Head(found)
                      text == IF grouped THEN SubSeq(s, m.cap[1], m.cap[2] - 1)
                              ELSE SubSeq(s, i, m.end - 1)
                  IN  <<text>> \o ReScan(re, grouped, s, IF m.end > i THEN m.end ELSE i + 1)

\* re.findall(pattern, s) for a pattern that matches no empty string
findall(pattern, s) == ReScan(pattern.re, pattern.grouped, s, 1)

(***************************************************************************)
(* _extract_contact_details_from_text (artist_controller.py 361-445).      *)
(***************************************************************************)
Letters == LowerCase \cup UpperCase
Alnum == Letters \cup Digits
\* \d and [-.\s]?
Digit == Cls(Digits)
Separator == Opt(Cls({"-", "."} \cup Whitespace))

\* lines 366-370
phone_patterns ==
    << [grouped |-> FALSE, re |->
          ReSeq(<<Opt(ReSeq(<<Opt(Cls({"+"})), Lit(<<"9", "1">>, FALSE), Separator>>)),
                  Cls({"6", "7", "8", "9"}), Rep(Digit, 9, 9)>>)],
       [grouped |-> FALSE, re |->
          ReSeq(<<Opt(ReSeq(<<Opt(Cls({"+"})), Cls({"1"}), Separator>>)),
                  Cls(Digits \ {"0", "1"}), Rep(Digit, 2, 2), Separator,
                  Rep(Digit, 3, 3), Separator, Rep(Digit, 4, 4)>>)],
       [grouped |-> FALSE, re |->
          ReSeq(<<Opt(ReSeq(<<Opt(Cls({"+"})), Rep(Digit, 1, 3), Separator>>)),
                  Opt(Cls({"("})), Rep(Digit, 3, 4), Opt(Cls({")"})), Separator,
                  Rep(Digit, 3, 4), Separator, Rep(Digit, 3, 4)>>)] >>

\* line 373; [A-Z|a-z] contains the bar
email_pattern ==
    [grouped |-> FALSE, re |->
        ReSeq(<<WordBoundary, Plus(Cls(Alnum \cup {".", "_", "%", "+", "-"})), Cls({"@"}),
                Plus(Cls(Alnum \cup {".", "-"})), Cls({"."}),
                Rep(Cls(Letters \cup {"|"}), 2, -1), WordBoundary>>)]

Platforms == {"instagram", "facebook", "twitter", "youtube", "linkedin", "spotify", "tiktok"}

\* lines 376-384, matched with re.IGNORECASE
social_patterns ==
    [platform \in Platforms |-> [grouped |-> TRUE, re |->
        CASE platform = "instagram" ->
                ReSeq(<<[k |-> "alt", items |-> <<Lit(<<"i", "n", "s", "t", "a", "g", "r", "a", "m", ".", "c", "o", "m", "/">>, TRUE), Cls({"@"})>>],
                        Group(Plus(Cls(Alnum \cup {"_", "."})))>>)
          [] platform = "facebook" ->
                ReSeq(<<Lit(<<"f", "a", "c", "e", "b", "o", "o", "k", ".", "c", "o", "m", "/">>, TRUE), Group(Plus(Cls(Alnum \cup {"."})))>>)
          [] platform = "twitter" ->
                ReSeq(<<[k |-> "alt", items |-> <<Lit(<<"t", "w", "i", "t", "t", "e", "r", ".", "c", "o", "m", "/">>, TRUE), Cls({"@"})>>],
                        Group(Plus(Cls(Alnum \cup {"_"})))>>)
          [] platform = "youtube" ->
                ReSeq(<<Lit(<<"y", "o", "u", "t", "u", "b", "e", ".", "c", "o", "m", "/">>, TRUE),
                        Opt([k |-> "alt", items |-> <<Lit(<<"c", "h", "a", "n", "n", "e", "l", "/">>, TRUE), Lit(<<"u", "s", "e", "r", "/">>, TRUE), Lit(<<"c", "/">>, TRUE)>>]),
                        Group(Plus(Cls(Alnum \cup {"_", "-"})))>>)
          [] platform = "linkedin" ->
                ReSeq(<<Lit(<<"l", "i", "n", "k", "e", "d", "i", "n", ".", "c", "o", "m", "/", "i", "n", "/">>, TRUE), Group(Plus(Cls(Alnum \cup {"-"})))>>)
          [] platform = "spotify" ->
                ReSeq(<<Lit(<<"s", "p", "o", "t", "i", "f", "y", ".", "c", "o", "m", "/", "a", "r", "t", "i", "s", "t", "/">>, TRUE), Group(Plus(Cls(Alnum)))>>)
          [] platform = "tiktok" ->
                ReSeq(<<Lit(<<"t", "i", "k", "t", "o", "k", ".", "c", "o", "m", "/", "@">>, TRUE), Group(Plus(Cls(Alnum \cup {"_", "."})))>>)]]

\* line 387, matched with re.IGNORECASE
website_pattern ==
    [grouped |-> TRUE, re |->
        ReSeq(<<Opt(ReSeq(<<Lit(<<"h", "t", "t", "p">>, TRUE), Opt(Lit(<<"s">>, TRUE)), Lit(<<":", "/", "/">>, TRUE)>>)),
                Opt(Lit(<<"w", "w", "w", ".">>, TRUE)),
                Group(ReSeq(<<Plus(Cls(Alnum \cup {"-"})), Cls({"."}),
                              Rep(Cls(Letters), 2, -1),
                              Opt(ReSeq(<<Cls({"/"}), Star(NotCls(Whitespace))>>))>>))>>)]

\* line 412
social_domains ==
    << <<"i", "n", "s", "t", "a", "g", "r", "a", "m", ".", "c", "o", "m">>,
       <<"f", "a", "c", "e", "b", "o", "o", "k", ".", "c", "o", "m">>,
       <<"t", "w", "i", "t", "t", "e", "r", ".", "c", "o", "m">>,
       <<"y", "o", "u", "t", "u", "b", "e", ".", "c", "o", "m">>,
       <<"l", "i", "n", "k", "e", "d", "i", "n", ".", "c", "o", "m">>,
       <<"s", "p", "o", "t", "i", "f", "y", ".", "c", "o", "m">>,
       <<"t", "i", "k", "t", "o", "k", ".", "c", "o", "m">> >>

\* line 419
address_keywords ==
    << <<"a", "d", "d", "r", "e", "s", "s">>,
       <<"l", "o", "c", "a", "t", "e", "d", " ", "a", "t">>,
       <<"b", "a", "s", "e", "d", " ", "i", "n">>,
       <<"r", "e", "s", "i", "d", "i", "n", "g", " ", "i", "n">> >>

\* a JSON list of strings
List(items) == [t |-> "list", v |-> items]

\* s.startswith(prefix)
StartsWith(s, prefix) == Len(s) >= Len(prefix) /\ SubSeq(s, 1, Len(prefix)) = prefix

\* the list as it is, empty or not
ListAsIs(items) == List(items)

\* lines 433-434: "x if x else None" for a list of matches
ListOrNone(items) == IF items # <<>> THEN List(items) ELSE Null

\* lines 436-437 and 402-405: "x[0] if x else None"
FirstOrNone(items) == IF items # <<>> THEN Str(items[1]) ELSE Null

\* lines 389-445
_extract_contact_details_from_text(text) ==
    LET phone_numbers == findall(phone_patterns[1], text) \o findall(phone_patterns[2], text)
                            \o findall(phone_patterns[3], text)
        emails == findall(email_pattern, text)
        social_media ==
            [platform \in Platforms |->
                LET matches == findall(social_patterns[platform], text)
                IN  FirstOrNone(matches)]
        websites == findall(website_pattern, text)
        own == SelectSeq(websites, LAMBDA site :
                    ~\E d \in 1..Len(social_domains) :
                        Contains(LowerStr(site), social_domains[d]))
        website == IF own = <<>> THEN Null
                   ELSE IF StartsWith(own[1], <<"h", "t", "t", "p">>) THEN Str(own[1])
                   ELSE Str(<<"h", "t", "t", "p", "s", ":", "/", "/">> \o own[1])
        address_lines == SelectSeq(Split(text, "\n"), LAMBDA line :
                    \E k \in 1..Len(address_keywords) :
                        Contains(LowerStr(line), address_keywords[k]))
        address_info == IF address_lines = <<>> THEN Null ELSE Str(Strip(address_lines[1]))
    IN  [ social_media |-> social_media,
          contact_info |->
            [ phone_numbers |-> ListOrNone(phone_numbers),
              emails |-> ListOrNone(emails),
              website |-> website,
              phone |-> FirstOrNone(phone_numbers),
              email |-> FirstOrNone(emails) ],
          address |->
            IF Truthy(address_info)
            THEN [ full_address |-> address_info, city |-> Null, state |-> Null,
                   country |-> Null ]
            ELSE Null ]

(***************************************************************************)
(* The contact details on their way through the ArtistInfo schema          *)
(* (artist_schemas.py 12-33, artist_controller.py 556-572), applied to one *)
(* input: the fallback's result for a text, or an object of the LLM.       *)
(***************************************************************************)
SocialMediaFields == {"instagram", "facebook", "twitter", "youtube", "other"}
ContactInfoFields == {"phone", "email", "website"}
AddressFields == {"full_address", "city", "state", "country"}

\* Model(**d): a field with a value that is neither null nor a string is a
\* ValidationError
SubModelValid(fields, d) ==
    d = Null \/ \A f \in fields \cap DOMAIN d : d[f].t \in {"null", "str"}

\* Model(**d).dict() for a model of Optional[str] fields: the fields of the
\* model, None where d has no such key; keys that are no fields are ignored
SubModel(fields, d) ==
    IF d = Null THEN Null
    ELSE [f \in fields |-> IF f \in DOMAIN d THEN d[f] ELSE Null]

ContactDetailsValid(raw) ==
    /\ SubModelValid(SocialMediaFields, raw.social_media)
    /\ SubModelValid(ContactInfoFields, raw.contact_info)
    /\ SubModelValid(AddressFields, raw.address)

\* ContactDetails(**raw).dict()
ContactDetails(raw) ==
    [ social_media |-> SubModel(SocialMediaFields, raw.social_media),
      contact_info |-> SubModel(ContactInfoFields, raw.contact_info),
      address |-> SubModel(AddressFields, raw.address) ]

\* artist_info_obj.dict()["contact_details"] of lines 556-572: after a
\* validation error the minimal object, which has no contact details
StoredContactDetails(raw) ==
    IF ContactDetailsValid(raw) THEN ContactDetails(raw) ELSE Null

ContactWords ==
    { <<"9", "8", "7", "6", "5", "4", "3", "2", "1", "0">>,
      <<"a", "@", "b", ".", "i", "n">>,
      <<"l", "i", "n", "k", "e", "d", "i", "n", ".", "c", "o", "m", "/", "i", "n", "/", "r", "a", "v", "i">>,
      <<"i", "n", "s", "t", "a", "g", "r", "a", "m", ".", "c", "o", "m", "/", "r", "a", "v", "i">>,
      <<"x", ".", "o", "r", "g">>,
      <<"a", "d", "d", "r", "e", "s", "s">>,
      <<"r", "a", "g", "a">> }

\* texts of at most two words
ContactTexts ==
    {<<>>} \cup ContactWords
    \cup {a \o <<sep>> \o b : a \in ContactWords, b \in ContactWords, sep \in {" ", "\n"}}

\* the keys the prompt asks the LLM for
PromptPlatforms ==
    {"instagram", "facebook", "twitter", "youtube", "linkedin", "spotify", "tiktok",
     "snapchat", "discord", "other"}

LlmHandle == <<"r", "a", "v", "i">>
LlmPhone == <<"9", "8", "7", "6", "5", "4", "3", "2", "1", "0">>

\* contact details in an answer of the LLM
LlmContactDetails ==
    { [ social_media |-> [p \in PromptPlatforms |->
                            IF p = "instagram" THEN insta
                            ELSE IF p = "linkedin" THEN linked ELSE Null],
        contact_info |-> [ phone_numbers |-> IF phone = Null THEN Null ELSE List(<<phone.v>>),
                           emails |-> Null, website |-> Null, phone |-> phone,
                           email |-> Null ],
        address |-> address ] :
        insta \in {Null, Str(LlmHandle)}, linked \in {Null, Str(LlmHandle)},
        phone \in {Null, Str(LlmPhone)},
        address \in {Null, [ full_address |-> Null, city |-> Str(<<"P", "u", "n", "e">>),
                             state |-> Null, country |-> Null ]} }

ContactInputs ==
    [src : {"fallback"}, text : ContactTexts]
    \cup [src : {"llm"}, contact_details : LlmContactDetails]

\* the contact details extract_with_gemini returns
RawContactDetails(input) ==
    IF input.src = "fallback" THEN _extract_contact_details_from_text(input.text)
    ELSE input.contact_details

InitContact ==
    /\ InitSystem
    /\ fname \in ContactInputs
    /\ fres = NoResult

ApplyContact ==
    /\ ~fres.done
    /\ fres' = [done |-> TRUE,
                v |-> [raw |-> RawContactDetails(fname),
                       stored |-> StoredContactDetails(RawContactDetails(fname))]]
    /\ UNCHANGED <<fname, sysvars>>

NextContact == ApplyContact

SpecContact == InitContact /\ [][NextContact]_vars

(***************************************************************************)
(* Properties                                                              *)
(***************************************************************************)
\* a stored name that is a string with at least one character
NameGiven(info) == info.artist_name.t = "str" /\ info.artist_name.v # <<>>

\* the extract requests that have inserted their record
Inserted(r) ==
    /\ req[r].kind = "extract"
    /\ req[r].artist_id # 0

\* C1: every record persisted by extract_artist_info carries, as long as no
\* enhancement has rewritten it, an artist_info.artist_name that is neither null
\* nor empty, whatever the LLM step did (unavailable, raised, unparseable,
\* not an object, no name, schema violation).
C1_GuaranteedName ==
    \A id \in DOMAIN artists :
        artists[id].enhancement_status = "absent" => NameGiven(artists[id].artist_info)

\* C1 witness: a record was persisted from the minimal object built after the
\* answer failed the ArtistInfo schema, and another from the fallback data.
C1_Witness ==
    \E r \in 1..MaxReq :
        /\ Inserted(r)
        /\ ~req[r].fell_back
        /\ req[r].info.summary = Str(<<"Artist information for ">> \o req[r].name)
        /\ artists[req[r].artist_id].artist_info.artist_name = Str(req[r].name)
        /\ \E s \in 1..MaxReq : Inserted(s) /\ req[s].fell_back

\* the name left of a file name once the extension, a leading timestamp and
\* the separators are removed
NameLeft(filename) ==
    SelectSeq(RemoveTimestamp(PathStem(filename)),
              LAMBDA c : c \notin Whitespace \cup {"_", "-"})

\* C4: extract_artist_name_from_filename returns, for every file name, a string
\* with at least two non-blank characters, and "Unknown Artist" whenever the name
\* left after removing extension, timestamp prefix and separators has fewer than
\* two characters.
C4_ValidName ==
    fres.done =>
        /\ Len(NonBlank(fres.v)) >= 2
        /\ (Len(NameLeft(fname)) < 2 => fres.v = UnknownArtist)

\* C4 witness: a timestamped name with one character left gave "Unknown Artist".
C4_Witness ==
    /\ fres.done
    /\ HasTimestampPrefix(PathStem(fname))
    /\ Len(NameLeft(fname)) = 1
    /\ fres.v = UnknownArtist

\* C2: in every reachable state of the artists collection, after any sequence
\* of extractions and enhancements, every stored record has a non-null
\* artist_info.artist_name.
C2_NameNeverNull ==
    \A id \in DOMAIN artists : artists[id].artist_info.artist_name.t # "null"

\* the steps of extract_artist_info, in the order of the specification
ExtractOrder == <<"validate", "save", "text", "llm", "schema", "insert", "respond">>

IsPrefix(s, t) == Len(s) <= Len(t) /\ SubSeq(t, 1, Len(s)) = s

\* the record of id is the one request r built
RecordOf(r, id) ==
    /\ id \in DOMAIN artists
    /\ artists[id].original_filename = req[r].filename
    /\ artists[id].saved_filename = req[r].path
    /\ artists[id].extracted_text = req[r].text
    /\ artists[id].created_by = req[r].user

\* C5: an extraction completes its steps in the order validate, save, text,
\* llm, schema, insert, respond: a record exists only for a request that has
\* completed text extraction, the LLM step and schema validation, success is
\* returned only after the insert, and the artist_id returned is that of the
\* record this request inserted, which no other request is given.
C5_StepOrder ==
    /\ \A r \in 1..MaxReq : req[r].kind = "extract" =>
          /\ IsPrefix(req[r].log, ExtractOrder)
          /\ (Inserted(r) <=> Len(req[r].log) >= 6)
          /\ (Inserted(r) => RecordOf(r, req[r].artist_id))
          /\ (req[r].status = 200 =>
                /\ req[r].log = ExtractOrder
                /\ req[r].resp.success
                /\ req[r].resp.artist_id = req[r].artist_id)
          /\ \A s \in 1..MaxReq :
                Inserted(r) /\ Inserted(s) /\ req[r].artist_id = req[s].artist_id => r = s
    /\ \A id \in DOMAIN artists :
          \E r \in 1..MaxReq : Inserted(r) /\ req[r].artist_id = id

\* C5 witness: two requests have both returned success, each with its own record.
C5_Witness ==
    \E r, s \in 1..MaxReq :
        /\ r # s
        /\ req[r].kind = "extract" /\ req[r].status = 200
        /\ req[s].kind = "extract" /\ req[s].status = 200
        /\ req[r].filename # req[s].filename
        /\ Cardinality(DOMAIN artists) = 2

\* what C7 says of every record but for the length of its text
RecordShape(id) ==
    /\ artists[id].extraction_status = "completed"
    /\ DOMAIN artists[id].artist_info = ArtistInfoFields
    /\ artists[id].created_by \in DOMAIN users
    /\ artists[id].created_at <= artists[id].updated_at
    /\ \E r \in 1..MaxReq :
          /\ Inserted(r) /\ req[r].artist_id = id
          /\ RecordOf(r, id)
          /\ artists[id].original_filename \in UploadNames
          /\ artists[id].saved_filename.name = SecuredName[req[r].filename]
          /\ artists[id].saved_filename.ts <= artists[id].created_at

\* C7 as stated: every extraction record has the uploaded file's name, the
\* saved file's name, the full extracted text with at least 10 non-blank
\* characters, the profile, extraction_status "completed", the requesting user
\* as created_by and both timestamps.
C7_AsStated ==
    \A id \in DOMAIN artists :
        /\ RecordShape(id)
        /\ Len(NonBlank(artists[id].extracted_text)) >= MinTextLen

\* C7 amended: the same, the text having at least 10 characters once leading
\* and trailing whitespace is stripped (blanks inside the text count).
C7_RecordFields ==
    \A id \in DOMAIN artists :
        /\ RecordShape(id)
        /\ Len(Strip(artists[id].extracted_text)) >= MinTextLen

\* C7 witness: a record whose text has ten characters, two of them not blank,
\* is stored and has since been enhanced.
C7_Witness ==
    \E id \in DOMAIN artists :
        /\ artists[id].extracted_text = TextSparse
        /\ artists[id].enhancement_status = "enhanced"
        /\ artists[id].extraction_status = "completed"

\* C8: once the text is extracted and long enough the LLM step cannot fail the
\* request: whenever extract_with_gemini falls back its data carry the supplied
\* name and confidence "medium", and the request goes on to the insert and
\* returns success unless the insert itself fails.
C8_SilentFallback ==
    \A r \in 1..MaxReq : req[r].kind = "extract" =>
        /\ (req[r].pc = "done" /\ Len(req[r].log) = 3 => req[r].status = 400)
        /\ (req[r].fell_back =>
              /\ Len(req[r].log) >= 5
              /\ req[r].info.artist_name = Str(req[r].name)
              /\ req[r].info.extraction_confidence = Str(<<"medium">>)
              /\ (req[r].pc = "done" =>
                     \/ req[r].status = 200 /\ Inserted(r) /\ req[r].resp.success
                     \/ req[r].status = 500 /\ ~Inserted(r)))

\* C8 witness: a request whose LLM step fell back has stored its record and
\* returned success.
C8_Witness ==
    \E r \in 1..MaxReq :
        /\ req[r].kind = "extract"
        /\ req[r].fell_back
        /\ req[r].status = 200
        /\ artists[req[r].artist_id].artist_info.extraction_confidence = Str(<<"medium">>)

C10_DuplicateRejected ==
    \A r \in 1..MaxReq : \A q \in {req[r], mreq[r]} :
        q.kind = "register" /\ q.in_use =>
            /\ q.user_id = 0
            /\ q.resp = NoResp
            /\ (q.pc = "done" => q.status = 400)

\* C10 witness: the package application has refused an e-mail address in use
\* under a new user name, main.py a user name in use, and the collection is
\* as it was.
C10_Witness ==
    /\ \E r \in 1..MaxReq :
          /\ req[r].kind = "register" /\ req[r].status = 400
          /\ req[r].detail = "User with this email already exists"
    /\ \E r \in 1..MaxReq :
          /\ mreq[r].kind = "register" /\ mreq[r].status = 400
    /\ users = RegisteredUsers

\* the credentials of main.py request q are a verifiable token of a stored user
GoodCredentials(q) == q.token.kind = "valid" /\ q.token.user_id \in DOMAIN users

\* C6: in main.py the five endpoints run only for a request whose token
\* verifies and names an existing user; any other request is rejected with 401
\* and returns no record, and no record is created.
C6_AuthenticatedOnly ==
    \A r \in 1..MaxReq : mreq[r].kind = "main" =>
        /\ (mreq[r].entered \/ mreq[r].pc = "handler" => GoodCredentials(mreq[r]))
        /\ (~GoodCredentials(mreq[r]) =>
              /\ mreq[r].returned = {}
              /\ artists \in {<<>>, PriorArtists}
              /\ (mreq[r].pc = "done" => mreq[r].status = 401))

EnhancedContactInfo == {"phone_numbers", "emails", "website", "phone", "email"}

\* every non-null value of section d is in section e under the same key
Kept(d, e) ==
    d # Null => e # Null /\ \A key \in DOMAIN d : d[key] # Null =>
                                key \in DOMAIN e /\ e[key] = d[key]

\* C11: the contact details that extraction stores and returns have the
\* enhanced structure (10 social-media keys, 5 contact_info keys, 4 address
\* keys), and no value of the LLM or of the fallback under these keys is lost
\* on the way through the ArtistInfo schema.
C11_EnhancedSchemaKept ==
    fres.done =>
        /\ fres.v.stored # Null
        /\ fres.v.stored.social_media # Null =>
                DOMAIN fres.v.stored.social_media = PromptPlatforms
        /\ fres.v.stored.contact_info # Null =>
                DOMAIN fres.v.stored.contact_info = EnhancedContactInfo
        /\ fres.v.stored.address # Null =>
                DOMAIN fres.v.stored.address = AddressFields
        /\ Kept(fres.v.raw.social_media, fres.v.stored.social_media)
        /\ Kept(fres.v.raw.contact_info, fres.v.stored.contact_info)
        /\ Kept(fres.v.raw.address, fres.v.stored.address)

\* what the phone patterns find in a text, pattern after pattern
PhonesIn(text) ==
    findall(phone_patterns[1], text) \o findall(phone_patterns[2], text)
        \o findall(phone_patterns[3], text)

\* C12: for every text, the fallback's contact_info has phone_numbers = null
\* and phone = null when no phone pattern matches, never an empty list, and
\* otherwise phone is the first of phone_numbers; likewise emails and email;
\* social_media has a key for every platform with a pattern, null when the
\* pattern finds nothing and the first match otherwise.
C12_NullHandling ==
    fres.done /\ fname.src = "fallback" =>
        LET info == fres.v.raw.contact_info
            social == fres.v.raw.social_media
        IN  /\ info.phone_numbers = Null <=> PhonesIn(fname.text) = <<>>
            /\ info.phone_numbers = Null => info.phone = Null
            /\ info.phone_numbers # Null =>
                    /\ info.phone_numbers = List(PhonesIn(fname.text))
                    /\ info.phone = Str(info.phone_numbers.v[1])
            /\ info.emails = Null <=> findall(email_pattern, fname.text) = <<>>
            /\ info.emails = Null => info.email = Null
            /\ info.emails # Null =>
                    /\ info.emails = List(findall(email_pattern, fname.text))
                    /\ info.email = Str(info.emails.v[1])
            /\ DOMAIN social = Platforms
            /\ \A platform \in Platforms :
                    LET matches == findall(social_patterns[platform], fname.text)
                    IN  social[platform] = IF matches = <<>> THEN Null ELSE Str(matches[1])

\* C12 witness: a text with a phone number and a LinkedIn profile but no
\* e-mail address has gone through the fallback
C12_Witness ==
    /\ fres.done /\ fname.src = "fallback"
    /\ fres.v.raw.contact_info.phone = Str(LlmPhone)
    /\ fres.v.raw.contact_info.emails = Null
    /\ fres.v.raw.contact_info.email = Null
    /\ fres.v.raw.social_media["linkedin"] = Str(LlmHandle)
    /\ fres.v.raw.social_media["facebook"] = Null

\* the extensions the validation is said to accept
AcceptedExtensions ==
    { <<"p", "d", "f">>, <<"d", "o", "c", "x">>, <<"j", "p", "g">>,
      <<"j", "p", "e", "g">>, <<"p", "n", "g">>, <<"b", "m", "p">>,
      <<"t", "i", "f", "f">> }

\* the file name has no '.', or the text after its last '.', lower-cased, is
\* none of the accepted extensions
ExtensionRejected(filename) ==
    \/ \A i \in 1..Len(filename) : filename[i] # "."
    \/ LowerStr(SubSeq(filename, RFind(filename, ".") + 1, Len(filename)))
            \notin AcceptedExtensions

\* C13: an upload whose extension is not accepted, or whose reported size
\* exceeds MAX_FILE_SIZE, is answered 400 before any effect: the request saves
\* no file and inserts no record.
C13_RejectedBeforeEffect ==
    \A r \in 1..MaxReq :
        req[r].kind = "extract" /\ (ExtensionRejected(req[r].filename) \/ req[r].too_large) =>
            /\ req[r].pc = "done"
            /\ req[r].status = 400
            /\ req[r].log = <<"validate">>
            /\ req[r].path = NoPath
            /\ ~Inserted(r)
            /\ \A p \in DOMAIN files : files[p] # r

\* C13 witness: a file name without '.' and an image of more than 16 MB have
\* both been refused, and nothing is in the upload folder or in the collection
C13_Witness ==
    /\ \E r \in 1..MaxReq :
          /\ req[r].kind = "extract" /\ req[r].status = 400
          /\ \A i \in 1..Len(req[r].filename) : req[r].filename[i] # "."
    /\ \E r \in 1..MaxReq :
          /\ req[r].kind = "extract" /\ req[r].status = 400
          /\ ~ExtensionRejected(req[r].filename) /\ req[r].too_large
          /\ req[r].detail = "File too large"
    /\ files = <<>>
    /\ artists = <<>>

\* request r has extracted the text of its upload
TextRead(r) == req[r].kind = "extract" /\ Len(req[r].log) >= 3

\* C14: when the text extracted from the upload is empty or has fewer than 10
\* characters once stripped, the extraction ends with 400 "Could not extract
\* meaningful text from the document"; the LLM step is not taken and no
\* record is inserted.
C14_ShortTextRejected ==
    \A r \in 1..MaxReq :
        TextRead(r) /\ Len(Strip(req[r].text)) < 10 =>
            /\ req[r].pc = "done"
            /\ req[r].status = 400
            /\ req[r].detail = "Could not extract meaningful text from the document"
            /\ req[r].log = <<"validate", "save", "text">>
            /\ req[r].info = NoInfo
            /\ ~Inserted(r)

\* C14 witness: a document without text and one with four letters have both
\* been refused
C14_Witness ==
    /\ \E r \in 1..MaxReq : TextRead(r) /\ req[r].text = <<>> /\ req[r].status = 400
    /\ \E r \in 1..MaxReq :
          TextRead(r) /\ Strip(req[r].text) = <<"r", "a", "g", "a">> /\ req[r].status = 400
    /\ artists = <<>>

\* request r has saved its upload
Saved(r) == req[r].kind = "extract" /\ req[r].path # NoPath

\* C15: every upload is saved under a path of its own: the paths of two
\* extract requests differ, also when they upload the same file name in the
\* same second, so none overwrites or removes the file of another.
C15_OwnFile ==
    \A r, s \in 1..MaxReq : r # s /\ Saved(r) /\ Saved(s) => req[r].path # req[s].path

\* C16: on extraction the name derived from the file name always wins: the
\* artist_name of the record as inserted, the artist_name of the artist_info
\* in the response and the response's guaranteed_artist_name all equal
\* extract_artist_name_from_filename(file.filename), whatever the LLM
\* proposed.
C16_FilenameNameWins ==
    \A r \in 1..MaxReq : Inserted(r) =>
        LET name == Uploaded[req[r].filename].artist_name
            record == artists[req[r].artist_id]
        IN  /\ req[r].info.artist_name = Str(name)
            /\ record.enhancement_status = "absent" =>
                    record.artist_info.artist_name = Str(name)
            /\ req[r].status = 200 =>
                    /\ req[r].resp.artist_info.artist_name = Str(name)
                    /\ req[r].resp.guaranteed_artist_name = name

\* C16 witness: an extraction whose profile is the object the LLM answered
\* (it carries the LLM's guru_name) has stored and returned the name derived
\* from ravi-k.PDF
C16_Witness ==
    \E r \in 1..MaxReq :
        /\ Inserted(r) /\ req[r].status = 200 /\ ~req[r].fell_back
        /\ req[r].info.guru_name = Str(LlmGuru)
        /\ req[r].filename = <<"r", "a", "v", "i", "-", "k", ".", "P", "D", "F">>
        /\ req[r].resp.artist_info.artist_name = Str(<<"R", "a", "v", "i", " ", "K">>)
        /\ artists[req[r].artist_id].artist_info.artist_name
                = Str(<<"R", "a", "v", "i", " ", "K">>)

\* C17: the saved upload is temporary: once an extraction that saved its file
\* has finished, with success or with an error, the file is no longer in the
\* upload folder.
C17_TempFileRemoved ==
    \A r \in 1..MaxReq :
        Saved(r) /\ req[r].pc = "done" => req[r].path \notin DOMAIN files

\* C18: a successful enhancement preserves the existing data: every field of
\* artist_info that was non-null when the call read the record has the same
\* value in the artist_info the call has stored.
C18_EnhancePreserves ==
    \A r \in 1..MaxReq :
        req[r].kind = "enhance" /\ req[r].status = 200 =>
            /\ artists[req[r].artist_id].enhancement_status = "enhanced"
            /\ \A f \in ArtistInfoFields :
                  req[r].existing[f] # Null => req[r].info[f] = req[r].existing[f]

\* a finished enhance call of request r
Enhanced(r) == req[r].kind = "enhance" /\ req[r].pc = "done"

\* what the status of a finished enhance call says of its cause
EnhanceStatuses ==
    \A r \in 1..MaxReq : Enhanced(r) =>
        /\ req[r].status \in {200, 404, 500, 503}
        /\ req[r].artist_id # MalformedId /\ req[r].artist_id \notin DOMAIN artists =>
                req[r].status = 404 /\ req[r].detail = "Artist not found"
        /\ req[r].artist_id = MalformedId => req[r].status = 500
        /\ req[r].status = 404 => req[r].artist_id # MalformedId
        /\ req[r].status = 503 <=>
                ~genai_ok /\ req[r].artist_id # MalformedId /\ req[r].status # 404
        /\ req[r].parsed = "error" =>
                req[r].status = 500 /\ req[r].detail = "Failed to parse AI response"

\* a step in which an enhance call goes on or fails leaves the collection as
\* it is
FailureChangesNothing ==
    \A r \in 1..MaxReq :
        req'[r] # req[r] /\ req'[r].kind = "enhance" /\ req'[r].status # 200 =>
            artists' = artists

\* C19: enhance_artist_contact_details reports each failure with its own
\* status: 404 "Artist not found" for an unknown id, 503 when no Gemini model
\* can be had, 500 "Failed to parse AI response" for an answer that is no
\* JSON, 500 for any other exception; and a failing call leaves the stored
\* records as they were.
C19_EnhanceFailures == []EnhanceStatuses /\ [][FailureChangesNothing]_vars

\* C19 witness: an enhance call on a stored record has failed on an answer
\* that is no JSON, and the record is as the extraction left it
C19_Witness ==
    \E r \in 1..MaxReq :
        /\ Enhanced(r) /\ req[r].status = 500 /\ req[r].parsed = "error"
        /\ req[r].artist_id \in DOMAIN artists
        /\ artists[req[r].artist_id].enhancement_status = "absent"
        /\ artists[req[r].artist_id].artist_info = req[r].existing

====
